---------------------------- MODULE Spec2Model ----------------------------
(***************************************************************************)
(* Model of oect_transfer/transfer.py: the Transfer constructor (input     *)
(* validation, forward/reverse split, transconductance, extrema, Von) and  *)
(* the static method Transfer.safe_diff.                                   *)
(*                                                                         *)
(* Numbers.  A float64 that the code computes is modelled by the exact     *)
(* rational it stands for; float rounding and overflow are not modelled.   *)
(*   - gate voltages are integers in units of 5e-13 V, so that the clamp   *)
(*     threshold 1e-12 of safe_diff is Eps = 2 units;                      *)
(*   - currents are integers in units of 1e-13 A, so that the magnitude    *)
(*     floor 1e-12 of _compute_Von is IFloor = 10 units; the current       *)
(*     magnitudes are 0 or powers of ten (0 and 1e-13 lie below the floor, *)
(*     1e-11 above it), on which log10 is exact;                           *)
(*   - a derivative is a normalised fraction <<num, den>>, den > 0.        *)
(* Indices are 1-based: index i of the model is index i-1 of the code.     *)
(***************************************************************************)
EXTENDS Integers, Sequences, FiniteSets, TLC

VARIABLES
    inX, inY,        \* the caller's two arguments x, y of Transfer(x, y, device_type)
    device_type,     \* the caller's third argument
    pc,              \* position of the constructor / of the safe_diff call
    err,             \* message of the ValueError raised, "none" when none
    Vg, I, gm,       \* self.Vg, self.I, self.gm      (Sequence records)
    gm_max, I_max, I_min, Von,   \* self.gm_max, ...  (Point records)
    nwrites,         \* number of writes the caller made after construction
    df_f, df_x, df_out   \* arguments and result of a direct Transfer.safe_diff(f, x)

vars == <<inX, inY, device_type, pc, err, Vg, I, gm, gm_max, I_max, I_min, Von,
          nwrites, df_f, df_x, df_out>>

results == <<Vg, I, gm, gm_max, I_max, I_min, Von>>

---------------------------------------------------------------------------
(* Bounds of the model *)

\* longest valid sweep
MaxLen == 3
\* longest argument among the malformed inputs (NaN, inf, wrong shape, unequal length)
DirtyLen == 2
\* longest sweep in the runs where the caller writes after construction
CallerLen == 2
\* writes a caller makes after construction
MaxWrites == 1

(* Program constants *)

\* 1e-12, the clamp threshold of safe_diff, in gate-voltage units of 5e-13
Eps == 2
\* 1e-12, the magnitude floor of _compute_Von, in current units of 1e-13
IFloor == 10

(* Input domains *)
VgVals == {0, 1, 2, 3}
IVals == {-100, 0, 1}
LinXVals == {0, 1, 2, 3, 4, 6}
Slopes == {-2, -1, 0, 1, 3}
Offsets == {-1, 0, 2}
DeviceTypes == {"N", "P", "n"}

---------------------------------------------------------------------------
(* Exact arithmetic *)

Abs(a) == IF a < 0 THEN -a ELSE a

RECURSIVE Gcd(_, _)
Gcd(a, b) == IF b = 0 THEN a ELSE Gcd(b, a % b)

\* the fraction n/d (d # 0) in lowest terms with a positive denominator
Rat(n, d) ==
    LET s == IF d < 0 THEN -1 ELSE 1
        g == Gcd(Abs(n), Abs(d))
    IN  <<(s * n) \div g, (s * d) \div g>>

Zero == <<0, 1>>
OfInt(a) == <<a, 1>>
RatLt(a, b) == a[1] * b[2] < b[1] * a[2]
\* (a + b) / 2
RatAvg(a, b) == Rat(a[1] * b[2] + b[1] * a[2], 2 * a[2] * b[2])
OfInts(s) == [i \in 1..Len(s) |-> OfInt(s[i])]

---------------------------------------------------------------------------
(* numpy reductions.  On an empty array numpy raises; the operators return *)
(* 0 there and the callers test for emptiness first.                       *)

\* mutant of ArgMaxScan: a later equal element replaces the best one (last maximum)
RECURSIVE ArgMaxScanLast(_, _, _)
ArgMaxScanLast(s, i, best) ==
    IF i > Len(s) THEN best
    ELSE ArgMaxScanLast(s, i + 1, IF RatLt(s[i], s[best]) THEN best ELSE i)

\* ndarray.argmax(): scan left to right, keep the first maximum
RECURSIVE ArgMaxScan(_, _, _)
ArgMaxScan(s, i, best) ==
    IF i > Len(s) THEN best
    ELSE ArgMaxScan(s, i + 1, IF RatLt(s[best], s[i]) THEN i ELSE best)

ArgMax(s) == IF Len(s) = 0 THEN 0 ELSE ArgMaxScan(s, 2, 1)

\* ndarray.argmin(): scan left to right, keep the first minimum
RECURSIVE ArgMinScan(_, _, _)
ArgMinScan(s, i, best) ==
    IF i > Len(s) THEN best
    ELSE ArgMinScan(s, i + 1, IF RatLt(s[i], s[best]) THEN i ELSE best)

ArgMin(s) == IF Len(s) = 0 THEN 0 ELSE ArgMinScan(s, 2, 1)

\* abs(array)
AbsSeq(s) == [i \in 1..Len(s) |-> Abs(s[i])]

---------------------------------------------------------------------------
(* Transfer.safe_diff *)

\* mutant of SafeDx: the threshold itself is not clamped (abs(dx) >= 1e-12)
SafeDxStrict(dx) == IF Abs(dx) >= Eps THEN dx ELSE Eps

\* mutant of SafeDx: the sign of a spacing above the threshold is dropped
SafeDxMagnitude(dx) == IF Abs(dx) > Eps THEN Abs(dx) ELSE Eps

\* dx = dx if abs(dx) > 1e-12 else 1e-12
SafeDx(dx) == IF Abs(dx) > Eps THEN dx ELSE Eps

\* mutant of DiffAt: a central difference at the interior samples
DiffAtCentral(f, x, i, n) ==
    IF i = 1 THEN Rat(f[2] - f[1], SafeDx(x[2] - x[1]))
    ELSE IF i = n THEN Rat(f[n] - f[n - 1], SafeDx(x[n] - x[n - 1]))
    ELSE Rat(f[i + 1] - f[i - 1], SafeDx(x[i + 1] - x[i - 1]))

\* the loop body of safe_diff for index i of n >= 2 samples
DiffAt(f, x, i, n) ==
    IF i = 1 THEN Rat(f[2] - f[1], SafeDx(x[2] - x[1]))
    ELSE IF i = n THEN Rat(f[n] - f[n - 1], SafeDx(x[n] - x[n - 1]))
    ELSE RatAvg(Rat(f[i] - f[i - 1], SafeDx(x[i] - x[i - 1])),
                Rat(f[i + 1] - f[i], SafeDx(x[i + 1] - x[i])))

safe_diff(f, x) ==
    LET n == Len(f)
    IN  IF n < 2 THEN [i \in 1..n |-> Zero]
        ELSE [i \in 1..n |-> DiffAt(f, x, i, n)]

---------------------------------------------------------------------------
(* Records *)

Sequence(r, f, v) == [raw |-> r, forward |-> f, reverse |-> v]
Point(r, w, f, v) == [raw |-> r, where |-> w, forward |-> f, reverse |-> v]

\* values of the attributes before the constructor assigns them
NoSequence == Sequence(<<>>, <<>>, <<>>)
NoPoint == Point(Zero, "unset", Zero, Zero)
NoIntPoint == Point(0, "unset", 0, 0)
None == [some |-> FALSE, val |-> 0]
Some(v) == [some |-> TRUE, val |-> v]
NoVon == Point(0, "unset", None, None)


---------------------------------------------------------------------------
(* Arguments of the constructor *)

\* one float64 element: finite, NaN, or an infinity with its sign
Fin(v) == [k |-> "fin", v |-> v]
NaN == [k |-> "nan", v |-> 0]
PosInf == [k |-> "inf", v |-> 1]
NegInf == [k |-> "inf", v |-> -1]

\* an argument as np.asarray sees it: number of dimensions, elements in
\* storage order, and whether np.asarray(a, dtype=np.float64) copies it (a
\* list, an integer array) or returns the very array (a float64 ndarray)
Array(nd, d, cp) == [ndim |-> nd, data |-> d, copied |-> cp]

FinSeq(s) == [i \in 1..Len(s) |-> Fin(s[i])]
Values(a) == [i \in 1..Len(a.data) |-> a.data[i].v]

SeqsUpTo(S, lo, hi) == UNION {[1..n -> S] : n \in lo..hi}

\* a valid sweep of n samples; kinds: whether np.asarray copies the arguments
CleanInput(a, b, n, kinds) ==
    \E xs \in [1..n -> VgVals], ys \in [1..n -> IVals], kx \in kinds, ky \in kinds :
        /\ a = Array(1, FinSeq(xs), kx)
        /\ b = Array(1, FinSeq(ys), ky)

DirtyVals == {Fin(0), NaN, PosInf, NegInf}

\* arguments of any content: 1-d, 2-d (shape (0, 0) or (1, 1)), 0-d (one element)
DirtyArrays ==
    {Array(1, d, FALSE) : d \in SeqsUpTo(DirtyVals, 0, DirtyLen)}
    \cup {Array(2, d, FALSE) : d \in SeqsUpTo(DirtyVals, 0, 1)}
    \cup {Array(0, d, FALSE) : d \in SeqsUpTo(DirtyVals, 1, 1)}

---------------------------------------------------------------------------
(* Transfer.__init__, lines 25-36: the message of the first check that fails *)

HasKind(a, kind) == \E i \in 1..Len(a.data) : a.data[i].k = kind

\* mutant of ValidationError: the infinity check runs before the NaN check
ValidationErrorInfFirst(x, y) ==
    IF x.ndim # 1 \/ y.ndim # 1 THEN "x and y must be 1D arrays."
    ELSE IF Len(x.data) # Len(y.data) THEN "x and y must have the same length."
    ELSE IF Len(x.data) = 0 \/ Len(y.data) = 0 THEN "x and y must not be empty."
    ELSE IF HasKind(x, "inf") \/ HasKind(y, "inf")
         THEN "x and y must not contain infinite values."
    ELSE IF HasKind(x, "nan") \/ HasKind(y, "nan")
         THEN "x and y must not contain NaN values."
    ELSE "none"

ValidationError(x, y) ==
    IF x.ndim # 1 \/ y.ndim # 1 THEN "x and y must be 1D arrays."
    ELSE IF Len(x.data) # Len(y.data) THEN "x and y must have the same length."
    ELSE IF Len(x.data) = 0 \/ Len(y.data) = 0 THEN "x and y must not be empty."
    ELSE IF HasKind(x, "nan") \/ HasKind(y, "nan")
         THEN "x and y must not contain NaN values."
    ELSE IF HasKind(x, "inf") \/ HasKind(y, "inf")
         THEN "x and y must not contain infinite values."
    ELSE "none"

\* mutant of Legs: the forward slice stops before the turning sample
LegsExclusive(raw, max_idx) ==
    Sequence(raw, SubSeq(raw, 1, max_idx - 1), SubSeq(raw, max_idx, Len(raw)))

(* Transfer.__init__, lines 42-51: a raw array and its two slices *)
Legs(raw, max_idx) ==
    Sequence(raw, SubSeq(raw, 1, max_idx), SubSeq(raw, max_idx, Len(raw)))

\* mutant of Classify: the turning index itself counts as forward
ClassifyInclusive(j, index) ==
    IF j <= index THEN "forward"
    ELSE IF j = index THEN "turning_point"
    ELSE "reverse"

(* the three-way comparison that sets a Point's where *)
Classify(j, index) ==
    IF j < index THEN "forward"
    ELSE IF j = index THEN "turning_point"
    ELSE "reverse"

\* array.max(), array.min() of a non-empty array
MaxOf(s) == s[ArgMax(s)]
MinOf(s) == s[ArgMin(s)]

\* mutant of compute_gm: the legs are differentiated against the raw gate voltage
compute_gm_raw_x ==
    Sequence(safe_diff(I.raw, Vg.raw),
             safe_diff(I.forward, Vg.raw),
             safe_diff(I.reverse, Vg.raw))

compute_gm ==
    Sequence(safe_diff(I.raw, Vg.raw),
             safe_diff(I.forward, Vg.forward),
             safe_diff(I.reverse, Vg.reverse))

compute_gm_max ==
    LET gm_max_index == ArgMax(gm.raw)
        index == ArgMax(OfInts(Vg.raw))
    IN  Point(MaxOf(gm.raw), Classify(gm_max_index, index),
              MaxOf(gm.forward), MaxOf(gm.reverse))

compute_I_max ==
    LET I_max_index == ArgMax(OfInts(AbsSeq(I.raw)))
        index == ArgMax(OfInts(Vg.raw))
    IN  Point(AbsSeq(I.raw)[I_max_index], Classify(I_max_index, index),
              AbsSeq(I.forward)[ArgMax(OfInts(AbsSeq(I.forward)))],
              AbsSeq(I.reverse)[ArgMax(OfInts(AbsSeq(I.reverse)))])

compute_I_min ==
    LET I_min_index == ArgMin(OfInts(AbsSeq(I.raw)))
        index == ArgMax(OfInts(Vg.raw))
    IN  Point(AbsSeq(I.raw)[I_min_index], Classify(I_min_index, index),
              AbsSeq(I.forward)[ArgMin(OfInts(AbsSeq(I.forward)))],
              AbsSeq(I.reverse)[ArgMin(OfInts(AbsSeq(I.reverse)))])

\* np.clip(a, 1e-12, None) on one element
Clip(v) == IF v < IFloor THEN IFloor ELSE v

\* log10 of a power of ten given in units of 1e-13
RECURSIVE Log10(_)
Log10(v) == IF v < 10 THEN -13 ELSE 1 + Log10(v \div 10)

\* np.log10(np.clip(abs(I), 1e-12, None))
LogMag(s) == [i \in 1..Len(s) |-> Log10(Clip(Abs(s[i])))]

\* str.upper() on the device types in use
Upper(s) == CASE s = "n" -> "N" [] s = "p" -> "P" [] OTHER -> s

\* mutant of SelectIdx: the two polarities are exchanged
SelectIdxSwapped(dlogId_dVg, dt) ==
    IF Upper(dt) = "N" THEN ArgMin(dlogId_dVg) ELSE ArgMax(dlogId_dVg)

\* argmax of the log-slope for an N device, argmin otherwise
SelectIdx(dlogId_dVg, dt) ==
    IF Upper(dt) = "N" THEN ArgMax(dlogId_dVg) ELSE ArgMin(dlogId_dVg)

\* Vg_leg[idx] if len(Vg_leg) > 0 else None
VonOfLeg(vg, idx) == IF Len(vg) > 0 THEN Some(vg[idx]) ELSE None

compute_Von(dt) ==
    LET idx_raw == SelectIdx(safe_diff(LogMag(I.raw), Vg.raw), dt)
        idx_forward == SelectIdx(safe_diff(LogMag(I.forward), Vg.forward), dt)
        idx_reverse == SelectIdx(safe_diff(LogMag(I.reverse), Vg.reverse), dt)
        index == ArgMax(OfInts(Vg.raw))
    IN  Point(Vg.raw[idx_raw], Classify(idx_raw, index),
              VonOfLeg(Vg.forward, idx_forward), VonOfLeg(Vg.reverse, idx_reverse))

---------------------------------------------------------------------------
(* Initial states *)

InitCommon ==
    /\ err = "none"
    /\ Vg = NoSequence /\ I = NoSequence /\ gm = NoSequence
    /\ gm_max = NoPoint /\ I_max = NoIntPoint /\ I_min = NoIntPoint /\ Von = NoVon
    /\ nwrites = 0

\* a call Transfer(x, y, device_type) about to start
Init ==
    /\ \/ \E n \in 1..MaxLen : CleanInput(inX, inY, n, {FALSE})
       \/ inX \in DirtyArrays /\ inY \in DirtyArrays
    /\ device_type \in DeviceTypes
    /\ pc = "start"
    /\ df_f = <<>> /\ df_x = <<>> /\ df_out = <<>>
    /\ InitCommon

---------------------------------------------------------------------------
(* The constructor, one action per statement group *)

\* lines 22-36
Validate ==
    /\ pc = "start"
    /\ err' = ValidationError(inX, inY)
    /\ pc' = IF err' = "none" THEN "validated" ELSE "error"
    /\ UNCHANGED <<inX, inY, device_type, results, nwrites, df_f, df_x, df_out>>

\* lines 40-51
Split ==
    /\ pc = "validated"
    /\ LET max_idx == ArgMax(OfInts(Values(inX)))
       IN  /\ Vg' = Legs(Values(inX), max_idx)
           /\ I' = Legs(Values(inY), max_idx)
    /\ pc' = "split"
    /\ UNCHANGED <<inX, inY, device_type, err, gm, gm_max, I_max, I_min, Von,
                   nwrites, df_f, df_x, df_out>>

\* line 53
ComputeGm ==
    /\ pc = "split"
    /\ gm' = compute_gm
    /\ pc' = "gm"
    /\ UNCHANGED <<inX, inY, device_type, err, Vg, I, gm_max, I_max, I_min, Von,
                   nwrites, df_f, df_x, df_out>>

\* numpy's ValueError for a reduction of an empty array
EmptyReduction == "attempt to get an extremum of an empty sequence"

\* line 54
ComputeGmMax ==
    /\ pc = "gm"
    /\ IF Len(gm.raw) = 0 \/ Len(gm.forward) = 0 \/ Len(gm.reverse) = 0
       THEN pc' = "error" /\ err' = EmptyReduction /\ UNCHANGED gm_max
       ELSE pc' = "gm_max" /\ gm_max' = compute_gm_max /\ UNCHANGED err
    /\ UNCHANGED <<inX, inY, device_type, Vg, I, gm, I_max, I_min, Von,
                   nwrites, df_f, df_x, df_out>>

\* line 55
ComputeIMax ==
    /\ pc = "gm_max"
    /\ IF Len(I.raw) = 0 \/ Len(I.forward) = 0 \/ Len(I.reverse) = 0
       THEN pc' = "error" /\ err' = EmptyReduction /\ UNCHANGED I_max
       ELSE pc' = "I_max" /\ I_max' = compute_I_max /\ UNCHANGED err
    /\ UNCHANGED <<inX, inY, device_type, Vg, I, gm, gm_max, I_min, Von,
                   nwrites, df_f, df_x, df_out>>

\* line 56
ComputeIMin ==
    /\ pc = "I_max"
    /\ IF Len(I.raw) = 0 \/ Len(I.forward) = 0 \/ Len(I.reverse) = 0
       THEN pc' = "error" /\ err' = EmptyReduction /\ UNCHANGED I_min
       ELSE pc' = "I_min" /\ I_min' = compute_I_min /\ UNCHANGED err
    /\ UNCHANGED <<inX, inY, device_type, Vg, I, gm, gm_max, I_max, Von,
                   nwrites, df_f, df_x, df_out>>

\* line 57
ComputeVon ==
    /\ pc = "I_min"
    /\ IF Len(I.raw) = 0 \/ Len(I.forward) = 0 \/ Len(I.reverse) = 0
       THEN pc' = "error" /\ err' = EmptyReduction /\ UNCHANGED Von
       ELSE pc' = "done" /\ Von' = compute_Von(device_type) /\ UNCHANGED err
    /\ UNCHANGED <<inX, inY, device_type, Vg, I, gm, gm_max, I_max, I_min,
                   nwrites, df_f, df_x, df_out>>

Construct ==
    \/ Validate
    \/ Split
    \/ ComputeGm
    \/ ComputeGmMax
    \/ ComputeIMax
    \/ ComputeIMin
    \/ ComputeVon

Next == Construct

Spec == Init /\ [][Next]_vars

---------------------------------------------------------------------------
(* The caller after construction.  Sequence and Point are plain            *)
(* @dataclass records (not frozen), and np.asarray(x, dtype=np.float64)    *)
(* of a float64 ndarray is that ndarray: self.Vg.raw is then the caller's  *)
(* array and forward/reverse are slices (views) of it.                     *)

Tags == {"forward", "turning_point", "reverse"}

\* raw and its two views after the underlying buffer changed to buf
Views(old, buf) ==
    Sequence(buf, SubSeq(buf, 1, Len(old.forward)),
             SubSeq(buf, Len(buf) - Len(old.reverse) + 1, Len(buf)))

\* x[i] = v on the array the caller passed as x
CallerWriteX ==
    /\ pc = "done"
    /\ nwrites < MaxWrites
    /\ \E i \in 1..Len(inX.data), v \in VgVals :
          /\ inX' = [inX EXCEPT !.data[i] = Fin(v)]
          /\ Vg' = IF inX.copied THEN Vg ELSE Views(Vg, Values(inX'))
    /\ nwrites' = nwrites + 1
    /\ UNCHANGED <<inY, device_type, pc, err, I, gm, gm_max, I_max, I_min, Von,
                   df_f, df_x, df_out>>

\* y[i] = v on the array the caller passed as y
CallerWriteY ==
    /\ pc = "done"
    /\ nwrites < MaxWrites
    /\ \E i \in 1..Len(inY.data), v \in IVals :
          /\ inY' = [inY EXCEPT !.data[i] = Fin(v)]
          /\ I' = IF inY.copied THEN I ELSE Views(I, Values(inY'))
    /\ nwrites' = nwrites + 1
    /\ UNCHANGED <<inX, device_type, pc, err, Vg, gm, gm_max, I_max, I_min, Von,
                   df_f, df_x, df_out>>

\* transfer.<point>.where = w
CallerSetField ==
    /\ pc = "done"
    /\ nwrites < MaxWrites
    /\ \E p \in {"gm_max", "I_max", "I_min", "Von"}, w \in Tags :
          /\ gm_max' = IF p = "gm_max" THEN [gm_max EXCEPT !.where = w] ELSE gm_max
          /\ I_max' = IF p = "I_max" THEN [I_max EXCEPT !.where = w] ELSE I_max
          /\ I_min' = IF p = "I_min" THEN [I_min EXCEPT !.where = w] ELSE I_min
          /\ Von' = IF p = "Von" THEN [Von EXCEPT !.where = w] ELSE Von
    /\ nwrites' = nwrites + 1
    /\ UNCHANGED <<inX, inY, device_type, pc, err, Vg, I, gm, df_f, df_x, df_out>>

\* the caller reads any attribute
CallerRead ==
    /\ pc = "done"
    /\ UNCHANGED vars

InitCaller ==
    /\ \E n \in 1..CallerLen : CleanInput(inX, inY, n, BOOLEAN)
    /\ device_type \in DeviceTypes
    /\ pc = "start"
    /\ df_f = <<>> /\ df_x = <<>> /\ df_out = <<>>
    /\ InitCommon

NextCaller ==
    \/ Construct
    \/ CallerWriteX
    \/ CallerWriteY
    \/ CallerSetField
    \/ CallerRead

SpecCaller == InitCaller /\ [][NextCaller]_vars

---------------------------------------------------------------------------
(* A direct call Transfer.safe_diff(f, x) on a linear signal f = m*x + c *)

Lin(m, c, x) == [i \in 1..Len(x) |-> m * x[i] + c]

InitDiff ==
    /\ df_x \in SeqsUpTo(LinXVals, 0, MaxLen)
    /\ \E m \in Slopes, c \in Offsets : df_f = Lin(m, c, df_x)
    /\ df_out = <<>>
    /\ pc = "diff_call"
    /\ inX = Array(1, <<>>, FALSE) /\ inY = Array(1, <<>>, FALSE)
    /\ device_type = "N"
    /\ InitCommon

CallSafeDiff ==
    /\ pc = "diff_call"
    /\ df_out' = safe_diff(df_f, df_x)
    /\ pc' = "diff_ret"
    /\ UNCHANGED <<inX, inY, device_type, err, results, nwrites, df_f, df_x>>

NextDiff == CallSafeDiff

SpecDiff == InitDiff /\ [][NextDiff]_vars

---------------------------------------------------------------------------
(* Properties *)

AfterSplit == pc \in {"split", "gm", "gm_max", "I_max", "I_min", "done"}
AfterGm == pc \in {"gm", "gm_max", "I_max", "I_min", "done"}
Unset ==
    /\ Vg = NoSequence /\ I = NoSequence /\ gm = NoSequence
    /\ gm_max = NoPoint /\ I_max = NoIntPoint /\ I_min = NoIntPoint /\ Von = NoVon

\* the error condition a message reports
ErrorKind(msg) ==
    CASE msg = "x and y must be 1D arrays." -> "ShapeError"
      [] msg = "x and y must have the same length." -> "ShapeError"
      [] msg = "x and y must not be empty." -> "EmptyInputError"
      [] msg = "x and y must not contain NaN values." -> "NaNValueError"
      [] msg = "x and y must not contain infinite values." -> "InfiniteValueError"
      [] OTHER -> "other"

\* the first check that the arguments fail, in the documented order
FirstFailure ==
    IF inX.ndim # 1 \/ inY.ndim # 1 THEN "ShapeError"
    ELSE IF Len(inX.data) # Len(inY.data) THEN "ShapeError"
    ELSE IF Len(inX.data) = 0 THEN "EmptyInputError"
    ELSE IF \E a \in {inX, inY} : \E i \in 1..Len(a.data) : a.data[i] = NaN
         THEN "NaNValueError"
    ELSE IF \E a \in {inX, inY} : \E i \in 1..Len(a.data) : a.data[i] \in {PosInf, NegInf}
         THEN "InfiniteValueError"
    ELSE "valid"

\* C1: a call with invalid arguments ends in an error whose kind is that of
\* the first failing check (1-D, equal length, non-empty, no NaN, no
\* infinity), with no attribute of the result assigned; a call with valid
\* arguments raises nothing.
C1_ValidationOrder ==
    pc # "start" =>
        IF FirstFailure = "valid"
        THEN pc # "error" /\ err = "none"
        ELSE pc = "error" /\ ErrorKind(err) = FirstFailure /\ Unset

\* C1 witness: NaN and an infinity are both present, an infinity first; NaN is reported
C1_Witness ==
    /\ pc = "error"
    /\ Len(inX.data) = 2 /\ Len(inY.data) = 2 /\ inX.ndim = 1 /\ inY.ndim = 1
    /\ inX.data[1] = NegInf /\ inY.data[2] = NaN
    /\ ErrorKind(err) = "NaNValueError"

\* the lowest index at which s attains its maximum (s: integers, non-empty)
LowestMaxIdx(s) ==
    CHOOSE k \in 1..Len(s) :
        /\ \A j \in 1..Len(s) : s[j] <= s[k]
        /\ \A j \in 1..(k - 1) : s[j] < s[k]

IsSplitAt(sw, k) ==
    /\ Len(sw.forward) = k
    /\ Len(sw.reverse) = Len(sw.raw) - k + 1
    /\ \A i \in 1..k : sw.forward[i] = sw.raw[i]
    /\ \A i \in k..Len(sw.raw) : sw.reverse[i - k + 1] = sw.raw[i]
    /\ sw.forward[k] = sw.reverse[1]
    /\ Len(sw.forward) + Len(sw.reverse) = Len(sw.raw) + 1

\* C2: Vg and I are the arguments, both split at the lowest index k of the
\* maximum of Vg: forward = raw[..k], reverse = raw[k..], sharing sample k.
C2_SplitAtFirstMax ==
    AfterSplit =>
        /\ Vg.raw = Values(inX) /\ I.raw = Values(inY)
        /\ Len(Vg.raw) = Len(I.raw) /\ Len(Vg.raw) >= 1
        /\ IsSplitAt(Vg, LowestMaxIdx(Vg.raw))
        /\ IsSplitAt(I, LowestMaxIdx(Vg.raw))

\* C2 witness: the maximum of Vg is attained twice, at indices 2 and 3
C2_Witness ==
    /\ pc = "split"
    /\ Len(Vg.raw) = 3
    /\ Vg.raw[1] < Vg.raw[2] /\ Vg.raw[2] = Vg.raw[3]
    /\ Len(Vg.forward) = 2 /\ Len(Vg.reverse) = 2

\* r = num / den, for a fraction r and integers num, den # 0
IsQuot(r, num, den) == r[1] * den = num * r[2]
\* r = (n1/d1 + n2/d2) / 2
IsMean(r, n1, d1, n2, d2) == r[1] * (2 * d1 * d2) = (n1 * d2 + n2 * d1) * r[2]

\* d is the derivative of f against x in the shape safe_diff documents, the
\* denominators being Den(spacing)
DiffShape(f, x, d, Den(_)) ==
    LET n == Len(f)
    IN  /\ Len(d) = n
        /\ n < 2 => \A i \in 1..n : d[i] = <<0, 1>>
        /\ n >= 2 =>
             /\ IsQuot(d[1], f[2] - f[1], Den(x[2] - x[1]))
             /\ IsQuot(d[n], f[n] - f[n - 1], Den(x[n] - x[n - 1]))
             /\ \A i \in 2..(n - 1) :
                    IsMean(d[i], f[i] - f[i - 1], Den(x[i] - x[i - 1]),
                                 f[i + 1] - f[i], Den(x[i + 1] - x[i]))

\* C3: each transconductance array has the length of its current array; it
\* is all zeros for fewer than two samples, and otherwise a forward
\* difference first, a backward difference last and the mean of both
\* one-sided differences in between, over the clamped spacings.
C3_DiffShape ==
    AfterGm =>
        /\ DiffShape(I.raw, Vg.raw, gm.raw, SafeDx)
        /\ DiffShape(I.forward, Vg.forward, gm.forward, SafeDx)
        /\ DiffShape(I.reverse, Vg.reverse, gm.reverse, SafeDx)

\* C3 witness: three samples with a non-zero interior mean, and a
\* one-sample forward leg whose derivative is zero-filled
C3_Witness ==
    /\ pc = "gm"
    /\ Len(I.raw) = 3 /\ Len(gm.raw) = 3
    /\ gm.raw[2] # Zero /\ gm.raw[1] # gm.raw[3]
    /\ Len(gm.forward) = 1 /\ gm.forward[1] = Zero

\* the clamp as the specification words it: magnitude below 1e-12
ClaimedDen(dx) == IF Abs(dx) < Eps THEN Eps ELSE dx
\* the clamp with the threshold itself included
AmendedDen(dx) == IF Abs(dx) <= Eps THEN Eps ELSE dx

\* C4 (as claimed): a spacing of magnitude below 1e-12 is replaced by
\* +1e-12 and any other spacing divides unchanged.
C4_ClampBelow ==
    AfterGm =>
        /\ DiffShape(I.raw, Vg.raw, gm.raw, ClaimedDen)
        /\ DiffShape(I.forward, Vg.forward, gm.forward, ClaimedDen)
        /\ DiffShape(I.reverse, Vg.reverse, gm.reverse, ClaimedDen)

\* C4 (amended): a spacing of magnitude at most 1e-12, of either sign, is
\* replaced by +1e-12; a spacing of magnitude above 1e-12 divides unchanged
\* with its sign; no divisor has a magnitude below 1e-12.
C4_ClampAtMost ==
    AfterGm =>
        /\ DiffShape(I.raw, Vg.raw, gm.raw, AmendedDen)
        /\ DiffShape(I.forward, Vg.forward, gm.forward, AmendedDen)
        /\ DiffShape(I.reverse, Vg.reverse, gm.reverse, AmendedDen)
        /\ \A i \in 1..(Len(Vg.raw) - 1) :
              Abs(AmendedDen(Vg.raw[i + 1] - Vg.raw[i])) >= Eps

\* C4 witness: spacings of exactly -1e-12 and of -5e-13 under changing current
C4_Witness ==
    /\ pc = "gm"
    /\ Len(Vg.raw) = 3
    /\ Vg.raw[2] - Vg.raw[1] = -Eps /\ I.raw[2] # I.raw[1]
    /\ Vg.raw[3] - Vg.raw[2] = -1 /\ I.raw[3] # I.raw[2]
    /\ gm.raw[1] = Rat(I.raw[2] - I.raw[1], Eps)

PairwiseDistinct(x) == \A i, j \in 1..Len(x) : i # j => x[i] # x[j]
SpacedApart(x) == \A i \in 1..(Len(x) - 1) : Abs(x[i + 1] - x[i]) > Eps
AllEqual(d, m) == \A i \in 1..Len(d) : d[i] = <<m, 1>>

\* C5 (as claimed): on f = m*x + c with pairwise distinct x, safe_diff
\* returns m at every index.
C5_LinearDistinct ==
    pc = "diff_ret" =>
        \A m \in Slopes, c \in Offsets :
            (df_f = Lin(m, c, df_x) /\ PairwiseDistinct(df_x))
                => (Len(df_out) = Len(df_x) /\ AllEqual(df_out, m))

\* C5 (amended): on f = m*x + c with at least two pairwise distinct samples
\* whose consecutive spacings all exceed 1e-12 in magnitude, safe_diff
\* returns m at every index (in exact arithmetic).
C5_LinearSpaced ==
    pc = "diff_ret" =>
        \A m \in Slopes, c \in Offsets :
            (/\ df_f = Lin(m, c, df_x)
             /\ Len(df_x) >= 2
             /\ PairwiseDistinct(df_x)
             /\ SpacedApart(df_x))
                => (Len(df_out) = Len(df_x) /\ AllEqual(df_out, m))

\* C5 witness: three decreasing, well spaced samples of a signal of slope 3
C5_Witness ==
    /\ pc = "diff_ret"
    /\ Len(df_x) = 3 /\ PairwiseDistinct(df_x) /\ SpacedApart(df_x)
    /\ df_x[1] > df_x[2] /\ df_x[2] > df_x[3]
    /\ df_f = Lin(3, 2, df_x)
    /\ AllEqual(df_out, 3)

\* the lowest index at which the fraction sequence s attains its maximum / minimum
FirstMaxIdx(s) ==
    CHOOSE j \in 1..Len(s) :
        /\ \A i \in 1..Len(s) : ~RatLt(s[j], s[i])
        /\ \A i \in 1..(j - 1) : RatLt(s[i], s[j])
FirstMinIdx(s) ==
    CHOOSE j \in 1..Len(s) :
        /\ \A i \in 1..Len(s) : ~RatLt(s[i], s[j])
        /\ \A i \in 1..(j - 1) : RatLt(s[j], s[i])

InSamples(v, s) == \E i \in 1..Len(s) : s[i] = v

IsN == device_type \in {"N", "n"}
LogSlope(iv, vg) == safe_diff(LogMag(iv), vg)

TagIs(tag, j, k) ==
    /\ tag = "forward" <=> j < k
    /\ tag = "turning_point" <=> j = k
    /\ tag = "reverse" <=> j > k
    /\ k = 1 => /\ tag # "forward"
                /\ j = 1 => tag = "turning_point"
                /\ j > 1 => tag = "reverse"

\* C6: the location of each of the four located values is forward,
\* turning_point or reverse as the index of the raw extremum (or selected
\* sample) is below, at or above the turning index; with the turning index
\* first, no location is forward.
C6_LocationTag ==
    pc = "done" =>
        LET k == LowestMaxIdx(Vg.raw)
            slope == LogSlope(I.raw, Vg.raw)
        IN  /\ TagIs(gm_max.where, FirstMaxIdx(gm.raw), k)
            /\ TagIs(I_max.where, FirstMaxIdx(OfInts(AbsSeq(I.raw))), k)
            /\ TagIs(I_min.where, FirstMinIdx(OfInts(AbsSeq(I.raw))), k)
            /\ TagIs(Von.where, IF IsN THEN FirstMaxIdx(slope) ELSE FirstMinIdx(slope), k)

\* C6 witness: the sweep starts at its maximum gate voltage; one value is
\* located at the turning point and another on the reverse leg
C6_Witness ==
    /\ pc = "done"
    /\ Len(Vg.raw) = 3 /\ LowestMaxIdx(Vg.raw) = 1
    /\ I_max.where = "reverse" /\ I_min.where = "turning_point"
    /\ gm_max.where = "reverse"

\* v is the gate voltage of the leg at an index where the log-slope is
\* largest (N) or smallest (P)
IsVonOf(v, iv, vg) ==
    LET slope == LogSlope(iv, vg)
    IN  \E i \in 1..Len(vg) :
            /\ v = vg[i]
            /\ IF IsN THEN i = FirstMaxIdx(slope) ELSE i = FirstMinIdx(slope)

\* C7: for raw, forward and reverse alike, Von is the gate voltage of the
\* leg where its log-slope is largest (N device) or smallest (P device);
\* an all-zero current raises nothing and every Von is a gate-voltage sample.
C7_VonSelection ==
    /\ (FirstFailure = "valid" /\ \A i \in 1..Len(inY.data) : inY.data[i] = Fin(0))
          => pc # "error"
    /\ pc = "done" =>
        /\ err = "none"
        /\ Von.forward.some /\ Von.reverse.some
        /\ IsVonOf(Von.raw, I.raw, Vg.raw)
        /\ IsVonOf(Von.forward.val, I.forward, Vg.forward)
        /\ IsVonOf(Von.reverse.val, I.reverse, Vg.reverse)
        /\ (\A i \in 1..Len(I.raw) : I.raw[i] = 0) =>
              /\ \A i \in 1..Len(I.raw) : LogSlope(I.raw, Vg.raw)[i] = Zero
              /\ Von.raw = Vg.raw[1]
              /\ InSamples(Von.forward.val, Vg.raw) /\ InSamples(Von.reverse.val, Vg.raw)

\* C7 witness: a P device whose raw log-slope has its minimum after its maximum
C7_Witness ==
    /\ pc = "done"
    /\ device_type = "P"
    /\ Len(Vg.raw) = 3
    /\ FirstMaxIdx(LogSlope(I.raw, Vg.raw)) = 1
    /\ FirstMinIdx(LogSlope(I.raw, Vg.raw)) = 3
    /\ Von.raw = Vg.raw[3] /\ Von.raw # Vg.raw[1]

\* C8 (as claimed): once the constructor has returned no step changes Vg,
\* I, gm, gm_max, I_max, I_min or Von, and the constructor leaves the
\* caller's arrays as they were.
C8_NeverMutated ==
    [][/\ pc = "done" => UNCHANGED results
       /\ pc # "done" => UNCHANGED <<inX, inY>>]_vars

\* C9: below the turning index the raw transconductance equals the forward
\* one, above it the reverse one.
C9_RawAgreesWithLegs ==
    AfterGm =>
        LET n == Len(gm.raw)
            k == LowestMaxIdx(Vg.raw)
        IN  /\ Len(gm.forward) = k /\ Len(gm.reverse) = n - k + 1
            /\ \A i \in 1..(k - 1) : gm.raw[i] = gm.forward[i]
            /\ \A i \in (k + 1)..n : gm.raw[i] = gm.reverse[i - k + 1]

\* C9 witness: at an interior turning sample the raw value differs from
\* both legs' values
C9_Witness ==
    /\ pc = "gm"
    /\ Len(gm.raw) = 3 /\ LowestMaxIdx(Vg.raw) = 2
    /\ gm.raw[2] # gm.forward[2] /\ gm.raw[2] # gm.reverse[1]
    /\ gm.raw[1] # Zero /\ gm.raw[3] # Zero

\* C10: once validation has passed both legs hold at least one sample, no
\* reduction of an empty array is raised, and Von.forward and Von.reverse
\* are gate-voltage samples, never None.
C10_LegsNonEmpty ==
    /\ AfterSplit =>
          /\ Len(Vg.forward) >= 1 /\ Len(Vg.reverse) >= 1
          /\ Len(I.forward) >= 1 /\ Len(I.reverse) >= 1
    /\ AfterGm => Len(gm.forward) >= 1 /\ Len(gm.reverse) >= 1
    /\ err # EmptyReduction
    /\ pc = "done" =>
          /\ Von.forward # None /\ Von.reverse # None
          /\ InSamples(Von.forward.val, Vg.raw) /\ InSamples(Von.reverse.val, Vg.raw)

\* C10 witness: the sweep starts at its maximum, so the forward leg is the
\* single turning sample, and Von.forward is that sample
C10_Witness ==
    /\ pc = "done"
    /\ Len(Vg.raw) = 3 /\ Len(Vg.forward) = 1
    /\ Von.forward = Some(Vg.raw[1])

===========================================================================
